---- MODULE Spec2Model ----
(***************************************************************************)
(* Model of the row-id rebase tool.  Two builds of the program are         *)
(* modelled: the dry-run build (src/main.go, facts kept in a hash map) and *)
(* the mode build (src/unnamed/part_000, facts kept in a slice, with the   *)
(* compare and rebase modes).  The database is the environment: its tables,*)
(* their maximum _tidb_rowid, and a concurrent writer that inserts rows.   *)
(***************************************************************************)
EXTENDS Integers, Sequences, FiniteSets, TLC

\* ------------------------------------------------------------------ bounds
MaxSchemas == 2      \* longest schema list given on the command line
MaxRowID   == 2      \* largest _tidb_rowid a table reaches
MaxNextID  == 3      \* largest NEXT_GLOBAL_ROW_ID the server reports
MaxNameLen == 2      \* longest identifier in the statement-text checks

\* --------------------------------------------------------------- constants
modeCompare == 0
modeRebase  == 1

\* ------------------------------------------------------------- environment
SchemaNames == {"db1", "db2"}

\* The tables SHOW TABLES FROM returns for a schema, in the server's order.
Catalog(schema) ==
    IF schema = "db1" THEN <<"t1", "t2">> ELSE <<"t1">>

Range(s) == {s[i] : i \in 1..Len(s)}

AllTables == {<<s, t>> : s \in SchemaNames, t \in {"t1", "t2"}}
Tables == {p \in AllTables : p[2] \in Range(Catalog(p[1]))}

\* Tables with an explicit integer primary key: they have no _tidb_rowid.
NoRowID == {<<"db2", "t1">>}

SchemaLists == UNION {[1..n -> SchemaNames] : n \in 1..MaxSchemas}

ModeStrings == {"compare", "rebase", "", "repair"}

VARIABLES
    build,        \* "main_go" (dry-run build) or "part_000" (mode build)
    modeString,   \* -mode flag
    dryRun,       \* -dry-run flag
    schemas,      \* strings.Split(*schemaList, ",")
    pc,           \* position of main
    mode,         \* parsed mode
    opened,       \* sql.Open has been called
    header,       \* the CSV header line has been printed
    si,           \* index of the schema loop
    tables,       \* tables of the current schema
    ti,           \* index of the table loop
    tableInfos,   \* part_000: the facts, in collection order
    maxRowIDs,    \* main.go: the facts, keyed by (schema, table)
    ai,           \* part_000: index of the action loop
    visited,      \* main.go: keys the range over the map has produced
    err,          \* the error of the last action
    rowMax,       \* database: max(_tidb_rowid) per table, -1: no such column
    autoInc,      \* database: value the last successful ALTER set, 0: none
    server,       \* database: which answers it gives to SHOW TABLE NEXT_ROW_ID
    queries,      \* every statement sent to the database, in order
    lookups,      \* every getMaxRowID result, in order
    enumOK,       \* per processed schema, whether enumeration succeeded
    logged,       \* the ">>> statement" lines logged
    diag,         \* kinds of warning lines logged
    cmpFact,      \* the fact of the last compareAutoIncrement call
    cmpResult,    \* what the server answered to that call
    cmpRows,      \* the rows that call scanned
    emitted,      \* the CSV records that call printed
    qSchema,      \* statement text: the schema name, as characters
    qTable,       \* statement text: the table name, as characters
    qVal,         \* statement text: the AUTO_INCREMENT value
    qKind,        \* statement text: which statement was built
    qText         \* statement text: the statement, as characters and words

vars == <<build, modeString, dryRun, schemas, pc, mode, opened, header, si,
          tables, ti, tableInfos, maxRowIDs, ai, visited, err, rowMax,
          autoInc, server, queries, lookups, enumOK, logged, diag, cmpFact, cmpRows,
          cmpResult, emitted, qSchema, qTable, qVal, qKind, qText>>

quoteVars == <<qSchema, qTable, qVal, qKind, qText>>

\* ------------------------------------------------------------------ values
NoFacts == [p \in {} |-> 0]

NoText ==
    /\ qSchema = <<>>
    /\ qTable = <<>>
    /\ qVal = 0
    /\ qKind = ""
    /\ qText = <<>>

Stmt(kind, schema, table, val) ==
    [kind |-> kind, Schema |-> schema, Table |-> table, Val |-> val]

\* fmt.Sprintf("SHOW TABLES FROM `%s`", schemaName)
ShowTablesQuery(schema) == Stmt("SHOW TABLES", schema, "", 0)

\* fmt.Sprintf("SELECT coalesce(max(_tidb_rowid), 0) FROM `%s`.`%s`", ...)
MaxRowIDQuery(schema, table) == Stmt("SELECT MAX", schema, table, 0)

\* fmt.Sprintf("ALTER TABLE `%s`.`%s` AUTO_INCREMENT = %d", ...)
AlterQuery(schema, table, n) == Stmt("ALTER", schema, table, n)

\* fmt.Sprintf("SHOW TABLE `%s`.`%s` NEXT_ROW_ID", ...)
NextRowIDQuery(schema, table) == Stmt("NEXT_ROW_ID", schema, table, 0)

\* ------------------------------------------------------------------- flags
ModeValid_Any(ms) == TRUE

ModeValid(ms) == ms \in {"compare", "rebase"}

ParseMode(ms) == IF ms = "rebase" THEN modeRebase ELSE modeCompare

\* -------------------------------------------------------------- collection
\* getMaxRowID: the pair (maxID, err).  A table with no _tidb_rowid column
\* fails with error 1054, which is swallowed; a query or scan failure leaves
\* maxID at its zero value and returns the error; a failure to close the row
\* after the scan returns the error with the value scanned.
LookupOutcomes == {"ok", "scan_error", "close_error"}

getMaxRowID(tbl, outcome) ==
    IF outcome = "scan_error" THEN [maxID |-> 0, err |-> TRUE]
    ELSE IF rowMax[tbl] = -1 THEN [maxID |-> 0, err |-> FALSE]
    ELSE [maxID |-> rowMax[tbl], err |-> outcome = "close_error"]

AutoIncOf_Unincremented(maxID) == maxID

\* tableInfo{..., AutoInc: maxID + 1}
AutoIncOf(maxID) == maxID + 1

\* newAutoIncrement := maxID + 1
newAutoIncrement(maxID) == maxID + 1

Skipped_OnErrorOnly(r) == r.err

\* The `if maxID == 0 { ...; continue }` test of the table loop.
Skipped(r) == r.maxID = 0

AfterEnumError_Break(i) == Len(schemas) + 1

\* Where the schema loop goes after an enumeration error (`continue`).
AfterEnumError(i) == i + 1

AfterTable_RetryOnError(j, r) == IF r.err THEN j ELSE j + 1

\* Where the table loop goes after a table, whatever its outcome.
AfterTable(j, r) == j + 1

SchemaLoopPC(i) == IF i > Len(schemas) THEN "act" ELSE "schema"

\* flag.Parse and the mode switch.
ParseFlags ==
    /\ pc = "parse"
    /\ IF build = "part_000"
       THEN IF ModeValid(modeString)
            THEN /\ mode' = ParseMode(modeString)
                 /\ header' = (modeString = "compare")
                 /\ pc' = "open"
            ELSE /\ pc' = "fatal"
                 /\ UNCHANGED <<mode, header>>
       ELSE /\ pc' = "open"
            /\ UNCHANGED <<mode, header>>
    /\ UNCHANGED quoteVars
    /\ UNCHANGED <<server, build, modeString, dryRun, schemas, opened, si, tables, ti,
                   tableInfos, maxRowIDs, ai, visited, err, rowMax, autoInc,
                   queries, lookups, enumOK, logged, diag, cmpFact, cmpRows,
                   cmpResult, emitted>>

\* sql.Open: fails only on a malformed DSN.
OpenDB ==
    /\ pc = "open"
    /\ opened' = TRUE
    /\ \E bad \in BOOLEAN :
          pc' = IF bad THEN "fatal" ELSE SchemaLoopPC(si)
    /\ UNCHANGED quoteVars
    /\ UNCHANGED <<server, build, modeString, dryRun, schemas, mode, header, si,
                   tables, ti, tableInfos, maxRowIDs, ai, visited, err, rowMax,
                   autoInc, queries, lookups, enumOK, logged, diag, cmpFact,
                   cmpRows, cmpResult, emitted>>

\* One iteration of the schema loop up to the table loop: getTablesInSchema.
GetTables ==
    /\ pc = "schema"
    /\ queries' = Append(queries, ShowTablesQuery(schemas[si]))
    /\ \E fails \in BOOLEAN :
          IF fails
          THEN /\ enumOK' = Append(enumOK, FALSE)
               /\ diag' = diag \cup {"enum"}
               /\ si' = AfterEnumError(si)
               /\ pc' = SchemaLoopPC(si')
               /\ UNCHANGED <<tables, ti>>
          ELSE /\ enumOK' = Append(enumOK, TRUE)
               /\ tables' = Catalog(schemas[si])
               /\ ti' = 1
               /\ IF Len(tables') = 0
                  THEN /\ si' = si + 1
                       /\ pc' = SchemaLoopPC(si')
                  ELSE /\ si' = si
                       /\ pc' = "table"
               /\ UNCHANGED diag
    /\ UNCHANGED quoteVars
    /\ UNCHANGED <<server, build, modeString, dryRun, schemas, mode, opened, header,
                   tableInfos, maxRowIDs, ai, visited, err, rowMax, autoInc,
                   lookups, logged, cmpFact, cmpRows, cmpResult, emitted>>

\* One iteration of the table loop: getMaxRowID and the store of the fact.
MeasureTable ==
    /\ pc = "table"
    /\ LET schema == schemas[si]
           table  == tables[ti]
       IN  /\ queries' = Append(queries, MaxRowIDQuery(schema, table))
           /\ \E outcome \in LookupOutcomes :
                 LET r == getMaxRowID(<<schema, table>>, outcome)
                 IN  /\ lookups' = Append(lookups,
                            [Schema |-> schema, Table |-> table,
                             maxID |-> r.maxID])
                     /\ IF Skipped(r)
                        THEN /\ diag' = IF r.err THEN diag \cup {"lookup"}
                                        ELSE diag
                             /\ UNCHANGED <<tableInfos, maxRowIDs>>
                        ELSE /\ UNCHANGED diag
                             /\ IF build = "part_000"
                                THEN /\ tableInfos' = Append(tableInfos,
                                          [Schema |-> schema, Table |-> table,
                                           AutoInc |-> AutoIncOf(r.maxID)])
                                     /\ UNCHANGED maxRowIDs
                                ELSE /\ maxRowIDs' =
                                          [p \in DOMAIN maxRowIDs
                                                   \cup {<<schema, table>>} |->
                                             IF p = <<schema, table>>
                                             THEN r.maxID ELSE maxRowIDs[p]]
                                     /\ UNCHANGED tableInfos
                     /\ ti' = AfterTable(ti, r)
                     /\ IF ti' > Len(tables)
                        THEN /\ si' = si + 1
                             /\ pc' = SchemaLoopPC(si')
                        ELSE /\ si' = si
                             /\ pc' = "table"
    /\ UNCHANGED quoteVars
    /\ UNCHANGED <<server, build, modeString, dryRun, schemas, mode, opened, header,
                   tables, ai, visited, err, rowMax, autoInc, enumOK, logged,
                   cmpFact, cmpRows, cmpResult, emitted>>

\* ------------------------------------------------------------------ rebase
RebaseValue_Remeasured(t) == rowMax[<<t.Schema, t.Table>>] + 1

\* The value rebaseAutoIncrement puts in its statement: the fact's, as
\* measured during collection.
RebaseValue(t) == t.AutoInc

Executes_Always(dry) == TRUE

\* Whether the dry-run build sends its statement (`if !*dryRun`).
Executes(dry) == ~dry

\* db.Exec of an ALTER TABLE ... AUTO_INCREMENT = n statement.
ExecAlter(tbl, n, fails) ==
    IF fails THEN autoInc ELSE [autoInc EXCEPT ![tbl] = n]

\* part_000, rebase mode: one iteration of the action loop.
RebaseStep ==
    /\ pc = "act"
    /\ build = "part_000"
    /\ mode = modeRebase
    /\ ai <= Len(tableInfos)
    /\ LET t == tableInfos[ai]
           q == AlterQuery(t.Schema, t.Table, RebaseValue(t))
       IN  /\ logged' = Append(logged, q)
           /\ queries' = Append(queries, q)
           /\ \E fails \in BOOLEAN :
                 /\ autoInc' = ExecAlter(<<t.Schema, t.Table>>, q.Val, fails)
                 /\ err' = fails
                 /\ diag' = IF fails THEN diag \cup {"action"} ELSE diag
    /\ ai' = ai + 1
    /\ UNCHANGED quoteVars
    /\ UNCHANGED <<server, build, modeString, dryRun, schemas, pc, mode, opened,
                   header, si, tables, ti, tableInfos, maxRowIDs, visited,
                   rowMax, lookups, enumOK, cmpFact, cmpRows, cmpResult, emitted>>

\* main.go: one iteration of the range over the map, in any order.
AlterStep ==
    /\ pc = "act"
    /\ build = "main_go"
    /\ \E tableID \in DOMAIN maxRowIDs \ visited :
          LET q == AlterQuery(tableID[1], tableID[2],
                              newAutoIncrement(maxRowIDs[tableID]))
          IN  /\ visited' = visited \cup {tableID}
              /\ logged' = Append(logged, q)
              /\ IF Executes(dryRun)
                 THEN /\ queries' = Append(queries, q)
                      /\ \E fails \in BOOLEAN :
                            /\ autoInc' = ExecAlter(tableID, q.Val, fails)
                            /\ err' = fails
                            /\ diag' = IF fails THEN diag \cup {"action"}
                                       ELSE diag
                 ELSE UNCHANGED <<queries, autoInc, err, diag>>
    /\ UNCHANGED quoteVars
    /\ UNCHANGED <<server, build, modeString, dryRun, schemas, pc, mode, opened,
                   header, si, tables, ti, tableInfos, maxRowIDs, ai, rowMax,
                   lookups, enumOK, cmpFact, cmpRows, cmpResult, emitted>>

\* ----------------------------------------------------------------- compare
RowIDScheme == "_TIDB_ROWID"
Schemes == {RowIDScheme, "AUTO_INCREMENT"}

\* A row of the result set, by (upper-cased) column name.
ResultRows == [ID_TYPE : Schemes, NEXT_GLOBAL_ROW_ID : 1..MaxNextID]

\* The server reports one row per allocator of the table: no scheme twice.
ResultSets ==
    {r \in UNION {[1..n -> ResultRows] : n \in 0..Cardinality(Schemes)} :
        \A i, j \in 1..Len(r) : r[i].ID_TYPE = r[j].ID_TYPE => i = j}

\* The column lists the server may answer with.
ColumnLists ==
    { <<"DB_NAME", "NEXT_GLOBAL_ROW_ID", "ID_TYPE">>,
      <<"db_name", "next_global_row_id", "id_type">>,
      <<"DB_NAME", "NEXT_GLOBAL_ROW_ID">>,
      <<"DB_NAME", "ID_TYPE">> }

\* strings.ToUpper on the column names above.
ToUpper(c) ==
    CASE c = "db_name" -> "DB_NAME"
      [] c = "next_global_row_id" -> "NEXT_GLOBAL_ROW_ID"
      [] c = "id_type" -> "ID_TYPE"
      [] OTHER -> c

\* The index the column loop leaves for `name`: the last match, -1 if none.
ColumnIndex(cols, name) ==
    LET hits == {i \in 1..Len(cols) : ToUpper(cols[i]) = name}
    IN  IF hits = {} THEN -1 ELSE CHOOSE i \in hits : \A j \in hits : j <= i

StatusOf_Strict(nextGlobalRowID, t) ==
    IF nextGlobalRowID > t.AutoInc THEN "ok" ELSE "ERROR"

\* status of a matched row.
StatusOf(nextGlobalRowID, t) ==
    IF nextGlobalRowID >= t.AutoInc THEN "ok" ELSE "ERROR"

Matches_AnyScheme(row) == TRUE

\* Whether the scan loop prints a record for the row.
Matches(row) == row.ID_TYPE = RowIDScheme

\* The body of the `for rows.Next()` loop over the rows scanned.
RECURSIVE ScanRows(_, _, _, _)
ScanRows(t, rows, i, out) ==
    IF i > Len(rows) THEN out
    ELSE IF ~Matches(rows[i]) THEN ScanRows(t, rows, i + 1, out)
    ELSE ScanRows(t, rows, i + 1,
             Append(out, [Schema |-> t.Schema, Table |-> t.Table,
                          Expected |-> t.AutoInc,
                          Current |-> rows[i].NEXT_GLOBAL_ROW_ID,
                          Status |-> StatusOf(rows[i].NEXT_GLOBAL_ROW_ID, t)]))

\* compareAutoIncrement.  queryFails: db.Query or rows.Columns fails.
\* failAt = k > 0: the k-th rows.Next/Scan fails (a scan error, or an
\* iteration error reported by rows.Err), after k - 1 rows were scanned.
compareAutoIncrement(t, queryFails, cols, rows, failAt) ==
    IF queryFails
    THEN [scanned |-> <<>>, out |-> <<>>, err |-> TRUE]
    ELSE IF \/ ColumnIndex(cols, "ID_TYPE") = -1
            \/ ColumnIndex(cols, "NEXT_GLOBAL_ROW_ID") = -1
    THEN [scanned |-> <<>>, out |-> <<>>, err |-> TRUE]
    ELSE LET scanned == IF failAt = 0 THEN rows
                        ELSE SubSeq(rows, 1, failAt - 1)
         IN  [scanned |-> scanned,
              out |-> ScanRows(t, scanned, 1, <<>>),
              err |-> failAt # 0]

\* What the server may do with one SHOW TABLE ... NEXT_ROW_ID query: fail
\* it, answer with a column list and rows, and break off at the failAt-th
\* row (0: never).
CompleteColumns(cols) ==
    /\ ColumnIndex(cols, "ID_TYPE") # -1
    /\ ColumnIndex(cols, "NEXT_GLOBAL_ROW_ID") # -1

CompareInputs ==
    {[queryFails |-> TRUE, cols |-> <<>>, rows |-> <<>>, failAt |-> 0]}
    \cup {[queryFails |-> FALSE, cols |-> c, rows |-> <<>>, failAt |-> 0] :
             c \in {x \in ColumnLists : ~CompleteColumns(x)}}
    \cup UNION {{[queryFails |-> FALSE, cols |-> c, rows |-> r, failAt |-> k] :
                    c \in {x \in ColumnLists : CompleteColumns(x)},
                    k \in 0..(Len(r) + 1)} : r \in ResultSets}

\* The answers the server gives in the runs over longer schema lists: the
\* query fails, a column is missing, or both allocators are reported, with
\* the row-id allocator at MaxNextID, whole or broken off.
PipelineAnswers ==
    {in \in CompareInputs :
        /\ in.cols \in {<<>>, <<"DB_NAME", "NEXT_GLOBAL_ROW_ID", "ID_TYPE">>,
                        <<"DB_NAME", "ID_TYPE">>}
        /\ in.rows \in {<<>>,
                        <<[ID_TYPE |-> "AUTO_INCREMENT",
                           NEXT_GLOBAL_ROW_ID |-> 1],
                          [ID_TYPE |-> RowIDScheme,
                           NEXT_GLOBAL_ROW_ID |-> MaxNextID]>>}
        /\ in.failAt \in {0, 2}}

Answers(srv) == IF srv = "any" THEN CompareInputs ELSE PipelineAnswers

\* part_000, compare mode: one iteration of the action loop.
CompareStep ==
    /\ pc = "act"
    /\ build = "part_000"
    /\ mode = modeCompare
    /\ ai <= Len(tableInfos)
    /\ LET t == tableInfos[ai]
       IN  /\ queries' = Append(queries, NextRowIDQuery(t.Schema, t.Table))
           /\ cmpFact' = t
           /\ \E in \in Answers(server) :
                 LET r == compareAutoIncrement(t, in.queryFails, in.cols,
                                               in.rows, in.failAt)
                 IN  /\ cmpResult' = [ok |-> ~in.queryFails,
                                      complete |-> CompleteColumns(in.cols),
                                      rows |-> in.rows]
                     /\ cmpRows' = r.scanned
                     /\ emitted' = r.out
                     /\ err' = r.err
                     /\ diag' = IF r.err THEN diag \cup {"action"} ELSE diag
    /\ ai' = ai + 1
    /\ UNCHANGED quoteVars
    /\ UNCHANGED <<server, build, modeString, dryRun, schemas, pc, mode, opened,
                   header, si, tables, ti, tableInfos, maxRowIDs, visited,
                   rowMax, autoInc, lookups, enumOK, logged>>

\* The action loop is over: main returns.
Finish ==
    /\ pc = "act"
    /\ IF build = "part_000" THEN ai > Len(tableInfos)
       ELSE visited = DOMAIN maxRowIDs
    /\ pc' = "done"
    /\ UNCHANGED quoteVars
    /\ UNCHANGED <<server, build, modeString, dryRun, schemas, mode, opened, header,
                   si, tables, ti, tableInfos, maxRowIDs, ai, visited, err,
                   rowMax, autoInc, queries, lookups, enumOK, logged, diag,
                   cmpFact, cmpRows, cmpResult, emitted>>

\* ------------------------------------------------------------- environment
\* A concurrent writer inserts a row: the table's max(_tidb_rowid) advances.
Writer ==
    /\ pc \in {"schema", "table", "act"}
    /\ \E tbl \in Tables :
          /\ rowMax[tbl] >= 0
          /\ rowMax[tbl] < MaxRowID
          /\ rowMax' = [rowMax EXCEPT ![tbl] = @ + 1]
    /\ UNCHANGED quoteVars
    /\ UNCHANGED <<server, build, modeString, dryRun, schemas, pc, mode, opened,
                   header, si, tables, ti, tableInfos, maxRowIDs, ai, visited,
                   err, autoInc, queries, lookups, enumOK, logged, diag,
                   cmpFact, cmpRows, cmpResult, emitted>>

Init ==
    /\ build \in {"main_go", "part_000"}
    /\ modeString \in (IF build = "part_000" THEN ModeStrings ELSE {""})
    /\ dryRun \in (IF build = "main_go" THEN BOOLEAN ELSE {FALSE})
    /\ schemas \in SchemaLists
    /\ pc = "parse"
    /\ mode = modeCompare
    /\ opened = FALSE
    /\ header = FALSE
    /\ si = 1
    /\ tables = <<>>
    /\ ti = 1
    /\ tableInfos = <<>>
    /\ maxRowIDs = NoFacts
    /\ ai = 1
    /\ visited = {}
    /\ err = FALSE
    /\ rowMax = [t \in Tables |-> IF t \in NoRowID THEN -1 ELSE 0]
    /\ autoInc = [t \in Tables |-> 0]
    /\ server = "pipeline"
    /\ queries = <<>>
    /\ lookups = <<>>
    /\ enumOK = <<>>
    /\ logged = <<>>
    /\ diag = {}
    /\ cmpFact = <<>>
    /\ cmpResult = <<>>
    /\ cmpRows = <<>>
    /\ emitted = <<>>
    /\ NoText

\* The mode build run in compare mode over one schema, against a server
\* that may give any answer; the tables hold any number of rows.
InitCompare ==
    /\ build = "part_000"
    /\ modeString = "compare"
    /\ dryRun = FALSE
    /\ schemas \in {<<s>> : s \in SchemaNames}
    /\ pc = "parse"
    /\ mode = modeCompare
    /\ opened = FALSE
    /\ header = FALSE
    /\ si = 1
    /\ tables = <<>>
    /\ ti = 1
    /\ tableInfos = <<>>
    /\ maxRowIDs = NoFacts
    /\ ai = 1
    /\ visited = {}
    /\ err = FALSE
    /\ rowMax \in {f \in [Tables -> -1..MaxRowID] :
                      \A t \in Tables : f[t] = -1 <=> t \in NoRowID}
    /\ autoInc = [t \in Tables |-> 0]
    /\ server = "any"
    /\ queries = <<>>
    /\ lookups = <<>>
    /\ enumOK = <<>>
    /\ logged = <<>>
    /\ diag = {}
    /\ cmpFact = <<>>
    /\ cmpResult = <<>>
    /\ cmpRows = <<>>
    /\ emitted = <<>>
    /\ NoText

Next ==
    \/ ParseFlags
    \/ OpenDB
    \/ GetTables
    \/ MeasureTable
    \/ RebaseStep
    \/ AlterStep
    \/ CompareStep
    \/ Finish
    \/ Writer

Spec == Init /\ [][Next]_vars

NextCompare ==
    \/ ParseFlags
    \/ OpenDB
    \/ GetTables
    \/ MeasureTable
    \/ CompareStep
    \/ Finish

SpecCompare == InitCompare /\ [][NextCompare]_vars

\* --------------------------------------------------------- statement texts
\* The characters of a name: an ordinary letter, a backtick, and a reserved
\* word taken as one piece.
Backtick == "BACKTICK"
NameChars == {"a", Backtick, "select"}
Names == UNION {[1..n -> NameChars] : n \in 1..MaxNameLen}

\* "`%s`" in the format strings: the name between two backticks, as it is.
Quoted(name) == <<Backtick>> \o name \o <<Backtick>>

\* fmt.Sprintf("SHOW TABLES FROM `%s`", schemaName)
ShowTablesText(schema) == <<"SHOW TABLES FROM ">> \o Quoted(schema)

\* fmt.Sprintf("SELECT coalesce(max(_tidb_rowid), 0) FROM `%s`.`%s`", ...)
MaxRowIDText(schema, table) ==
    <<"SELECT coalesce(max(_tidb_rowid), 0) FROM ">>
        \o Quoted(schema) \o <<".">> \o Quoted(table)

\* fmt.Sprintf("ALTER TABLE `%s`.`%s` AUTO_INCREMENT = %d", ...)
AlterText(schema, table, n) ==
    <<"ALTER TABLE ">> \o Quoted(schema) \o <<".">> \o Quoted(table)
        \o <<" AUTO_INCREMENT = ", ToString(n)>>

\* fmt.Sprintf("SHOW TABLE `%s`.`%s` NEXT_ROW_ID", ...)
NextRowIDText(schema, table) ==
    <<"SHOW TABLE ">> \o Quoted(schema) \o <<".">> \o Quoted(table)
        \o <<" NEXT_ROW_ID">>

InitQuote ==
    /\ build = "part_000"
    /\ modeString = "rebase"
    /\ dryRun = FALSE
    /\ schemas = <<"db1">>
    /\ pc = "parse"
    /\ mode = modeCompare
    /\ opened = FALSE
    /\ header = FALSE
    /\ si = 1
    /\ tables = <<>>
    /\ ti = 1
    /\ tableInfos = <<>>
    /\ maxRowIDs = NoFacts
    /\ ai = 1
    /\ visited = {}
    /\ err = FALSE
    /\ rowMax = [t \in Tables |-> IF t \in NoRowID THEN -1 ELSE 0]
    /\ autoInc = [t \in Tables |-> 0]
    /\ server = "pipeline"
    /\ queries = <<>>
    /\ lookups = <<>>
    /\ enumOK = <<>>
    /\ logged = <<>>
    /\ diag = {}
    /\ cmpFact = <<>>
    /\ cmpResult = <<>>
    /\ cmpRows = <<>>
    /\ emitted = <<>>
    /\ qSchema \in Names
    /\ qTable \in Names
    /\ qVal \in 2..(MaxRowID + 1)
    /\ qKind = ""
    /\ qText = <<>>

pipeVars == <<build, modeString, dryRun, schemas, pc, mode, opened, header, si,
              tables, ti, tableInfos, maxRowIDs, ai, visited, err, rowMax,
              autoInc, server, queries, lookups, enumOK, logged, diag,
              cmpFact, cmpRows, cmpResult, emitted>>

\* getTablesInSchema builds its query.
BuildShowTables ==
    /\ qKind = ""
    /\ qKind' = "SHOW TABLES"
    /\ qText' = ShowTablesText(qSchema)
    /\ UNCHANGED <<qSchema, qTable, qVal>>
    /\ UNCHANGED pipeVars

\* getMaxRowID builds its query.
BuildMaxRowID ==
    /\ qKind = ""
    /\ qKind' = "SELECT MAX"
    /\ qText' = MaxRowIDText(qSchema, qTable)
    /\ UNCHANGED <<qSchema, qTable, qVal>>
    /\ UNCHANGED pipeVars

\* rebaseAutoIncrement (and main of the dry-run build) builds its statement.
BuildAlter ==
    /\ qKind = ""
    /\ qKind' = "ALTER"
    /\ qText' = AlterText(qSchema, qTable, qVal)
    /\ UNCHANGED <<qSchema, qTable, qVal>>
    /\ UNCHANGED pipeVars

\* compareAutoIncrement builds its query.
BuildNextRowID ==
    /\ qKind = ""
    /\ qKind' = "NEXT_ROW_ID"
    /\ qText' = NextRowIDText(qSchema, qTable)
    /\ UNCHANGED <<qSchema, qTable, qVal>>
    /\ UNCHANGED pipeVars

NextQuote ==
    \/ BuildShowTables
    \/ BuildMaxRowID
    \/ BuildAlter
    \/ BuildNextRowID

SpecQuote == InitQuote /\ [][NextQuote]_vars

\* ------------------------------------------------------------------ claims
\* How the server reads a quoted identifier: from the opening backtick to the
\* next single backtick, a doubled backtick standing for one.
RECURSIVE ReadIdent(_, _, _)
ReadIdent(text, j, acc) ==
    IF j > Len(text) THEN [ok |-> FALSE, name |-> acc, next |-> j]
    ELSE IF text[j] # Backtick THEN ReadIdent(text, j + 1, Append(acc, text[j]))
    ELSE IF j + 1 <= Len(text) /\ text[j + 1] = Backtick
         THEN ReadIdent(text, j + 2, Append(acc, Backtick))
    ELSE [ok |-> acc # <<>>, name |-> acc, next |-> j + 1]

IdentAt(text, i) ==
    IF i <= Len(text) /\ text[i] = Backtick THEN ReadIdent(text, i + 1, <<>>)
    ELSE [ok |-> FALSE, name |-> <<>>, next |-> i]

Leading(kind) ==
    CASE kind = "SHOW TABLES" -> "SHOW TABLES FROM "
      [] kind = "SELECT MAX" -> "SELECT coalesce(max(_tidb_rowid), 0) FROM "
      [] kind = "ALTER" -> "ALTER TABLE "
      [] OTHER -> "SHOW TABLE "

Trailing(kind, n) ==
    CASE kind = "ALTER" -> <<" AUTO_INCREMENT = ", ToString(n)>>
      [] kind = "NEXT_ROW_ID" -> <<" NEXT_ROW_ID">>
      [] OTHER -> <<>>

\* The schema and table a statement text names, when it is one well-formed
\* statement of its kind.
Decode(text, kind, n) ==
    LET bad == [ok |-> FALSE, schema |-> <<>>, table |-> <<>>]
        s   == IdentAt(text, 2)
    IN  IF Len(text) < 1 \/ text[1] # Leading(kind) \/ ~s.ok THEN bad
        ELSE IF kind = "SHOW TABLES"
             THEN IF s.next = Len(text) + 1
                  THEN [ok |-> TRUE, schema |-> s.name, table |-> <<>>]
                  ELSE bad
        ELSE IF s.next > Len(text) \/ text[s.next] # "." THEN bad
        ELSE LET t == IdentAt(text, s.next + 1)
             IN  IF t.ok /\ SubSeq(text, t.next, Len(text)) = Trailing(kind, n)
                 THEN [ok |-> TRUE, schema |-> s.name, table |-> t.name]
                 ELSE bad

\* C7: every statement built for a schema and table name, whatever characters
\* the names hold, is one well-formed statement whose quoted identifiers
\* decode back to exactly that schema and table.
C7_StatementTargetsItsTable ==
    qKind # "" =>
        Decode(qText, qKind, qVal) =
            [ok |-> TRUE, schema |-> qSchema,
             table |-> IF qKind = "SHOW TABLES" THEN <<>> ELSE qTable]

\* The same holds of the names that hold no backtick (reserved words
\* included): the quoting is sound for them.
C7_PlainNamesDecode ==
    (qKind # "" /\ Backtick \notin Range(qSchema) \cup Range(qTable)) =>
        Decode(qText, qKind, qVal) =
            [ok |-> TRUE, schema |-> qSchema,
             table |-> IF qKind = "SHOW TABLES" THEN <<>> ELSE qTable]

\* ------------------------------------------------------ reading the traces
IsAction(q) == q.kind \in {"ALTER", "NEXT_ROW_ID"}
IsMaxQuery(q) == q.kind = "SELECT MAX"
IsShowTables(q) == q.kind = "SHOW TABLES"
IsPositive(l) == l.maxID > 0
TableOf(x) == <<x.Schema, x.Table>>

Indices(seq, tbl) == {i \in 1..Len(seq) : TableOf(seq[i]) = tbl}

PositiveLookups == SelectSeq(lookups, IsPositive)
Actions == SelectSeq(queries, IsAction)

\* The tables some lookup found a positive maximum for.
Measured == {TableOf(lookups[i]) : i \in {j \in 1..Len(lookups) :
                                            IsPositive(lookups[j])}}

\* The maximum the last positive lookup of a table returned.
LastPositive(tbl) ==
    LET hits == {i \in Indices(lookups, tbl) : IsPositive(lookups[i])}
    IN  lookups[CHOOSE i \in hits : \A j \in hits : j <= i].maxID

\* The statements the collection phase sends for the schema list, given
\* which enumerations succeeded.
RECURSIVE ExpectedMaxQueries(_)
ExpectedMaxQueries(i) ==
    IF i = 0 THEN <<>>
    ELSE ExpectedMaxQueries(i - 1) \o
         (IF enumOK[i]
          THEN [j \in 1..Len(Catalog(schemas[i])) |->
                  [kind |-> "SELECT MAX", Schema |-> schemas[i],
                   Table |-> Catalog(schemas[i])[j], Val |-> 0]]
          ELSE <<>>)

IsPrefix(a, b) == Len(a) <= Len(b) /\ a = SubSeq(b, 1, Len(a))

\* C1: for every table whose max-row-id lookup returns m > 0, the value used
\* for it in the action phase (the AUTO_INCREMENT value of the ALTER TABLE
\* statement, the Expected value of the comparison) is exactly m + 1.
C1_ActionValueIsMaxPlusOne ==
    /\ build = "part_000" =>
          /\ Len(tableInfos) = Len(PositiveLookups)
          /\ \A k \in 1..Len(Actions) :
                /\ TableOf(Actions[k]) = TableOf(PositiveLookups[k])
                /\ Actions[k].kind = "ALTER" =>
                      Actions[k].Val = PositiveLookups[k].maxID + 1
          /\ (mode = modeCompare /\ cmpFact # <<>>) =>
                /\ cmpFact.AutoInc = PositiveLookups[ai - 1].maxID + 1
                /\ \A i \in 1..Len(emitted) :
                      emitted[i].Expected = PositiveLookups[ai - 1].maxID + 1
    /\ build = "main_go" =>
          /\ \A i \in 1..Len(logged) :
                /\ TableOf(logged[i]) \in Measured
                /\ logged[i].Val = LastPositive(TableOf(logged[i])) + 1
          /\ \A k \in 1..Len(Actions) :
                /\ TableOf(Actions[k]) \in Measured
                /\ Actions[k].Val = LastPositive(TableOf(Actions[k])) + 1

C1_Witness ==
    /\ pc = "done"
    /\ \E i \in 1..Len(lookups) : lookups[i].maxID = MaxRowID
    /\ \E k \in 1..Len(Actions) :
          Actions[k].kind = "ALTER" /\ Actions[k].Val = MaxRowID + 1

\* C2: a fact is produced only for a positive maximum: a table whose lookups
\* yield 0 (empty table, error 1054, any other query error) gets no fact and
\* no ALTER TABLE or SHOW TABLE ... NEXT_ROW_ID statement.
C2_NoFactForZeroLookup ==
    /\ build = "part_000" =>
          /\ Len(tableInfos) = Len(PositiveLookups)
          /\ \A k \in 1..Len(tableInfos) :
                TableOf(tableInfos[k]) = TableOf(PositiveLookups[k])
    /\ build = "main_go" => DOMAIN maxRowIDs = Measured
    /\ \A tbl \in Tables :
          (\A i \in Indices(lookups, tbl) : lookups[i].maxID = 0) =>
             /\ Indices(tableInfos, tbl) = {}
             /\ tbl \notin DOMAIN maxRowIDs
             /\ Indices(Actions, tbl) = {}
             /\ Indices(logged, tbl) = {}
             /\ autoInc[tbl] = 0

C2_Witness ==
    /\ pc = "done"
    /\ "lookup" \in diag
    /\ \E tbl \in Tables :
          /\ Indices(lookups, tbl) # {}
          /\ \A i \in Indices(lookups, tbl) : lookups[i].maxID = 0
          /\ rowMax[tbl] > 0
    /\ \E tbl \in Tables :
          /\ Indices(lookups, tbl) # {}
          /\ rowMax[tbl] = 0
    /\ \E tbl \in NoRowID : Indices(lookups, tbl) # {}

\* C3: in the dry-run build with dry-run set, no ALTER statement is sent,
\* while the statement logged for each fact is the one that is executed when
\* dry-run is not set; the max-row-id queries do not depend on the flag.
C3_DryRunSendsNothing ==
    build = "main_go" =>
       /\ dryRun => (Actions = <<>> /\ \A tbl \in Tables : autoInc[tbl] = 0)
       /\ ~dryRun => Actions = logged
       /\ Len(logged) = Cardinality(visited)
       /\ {logged[i] : i \in 1..Len(logged)} =
             {[kind |-> "ALTER", Schema |-> k[1], Table |-> k[2],
               Val |-> maxRowIDs[k] + 1] : k \in visited}
       /\ IsPrefix(SelectSeq(queries, IsMaxQuery),
                   ExpectedMaxQueries(Len(enumOK)))

C3_Witness ==
    /\ build = "main_go"
    /\ dryRun
    /\ pc = "done"
    /\ Len(logged) = 2

\* C6: no error crosses a schema or table boundary: whatever enumeration,
\* lookup or action failed, a run that ends has enumerated every schema of
\* the list, measured every table of every enumerated schema, and attempted
\* the action of every table with a positive maximum.
C6_ErrorsAreIsolated ==
    pc = "done" =>
       /\ Len(enumOK) = Len(schemas)
       /\ SelectSeq(queries, IsShowTables) =
             [i \in 1..Len(schemas) |->
                [kind |-> "SHOW TABLES", Schema |-> schemas[i], Table |-> "",
                 Val |-> 0]]
       /\ SelectSeq(queries, IsMaxQuery) = ExpectedMaxQueries(Len(schemas))
       /\ Len(lookups) = Len(SelectSeq(queries, IsMaxQuery))
       /\ build = "part_000" =>
             /\ Len(Actions) = Len(PositiveLookups)
             /\ \A k \in 1..Len(Actions) :
                   TableOf(Actions[k]) = TableOf(PositiveLookups[k])
       /\ build = "main_go" =>
             {TableOf(logged[i]) : i \in 1..Len(logged)} = Measured

C6_Witness ==
    /\ pc = "done"
    /\ {"enum", "action"} \subseteq diag
    /\ ~err
    /\ Len(Actions) = 2

\* C8: with a mode other than compare or rebase (none given included) the
\* program ends fatally before a connection is opened or a statement sent.
C8_InvalidModeStopsBeforeOpen ==
    (build = "part_000" /\ modeString \notin {"compare", "rebase"}) =>
       /\ pc \in {"parse", "fatal"}
       /\ ~opened
       /\ queries = <<>>

C8_Witness ==
    /\ build = "part_000"
    /\ modeString = ""
    /\ pc = "fatal"
    /\ ~opened

Occurrences(schema) == Cardinality({i \in 1..Len(schemas) : schemas[i] = schema})

\* C9, as claimed: whatever the schema list (one naming a schema twice
\* included), each table gets the max-row-id query at most once and the
\* action at most once.
C9_AtMostOncePerTable ==
    \A tbl \in Tables :
       /\ Cardinality(Indices(SelectSeq(queries, IsMaxQuery), tbl)) <= 1
       /\ Cardinality(Indices(Actions, tbl)) <= 1

\* C9, amended: nothing is retried: each table gets the max-row-id query at
\* most once per occurrence of its schema in the list, and the action at most
\* once per fact stored for it (at most once in the map-keyed build).
C9_OncePerListedSchema ==
    \A tbl \in Tables :
       /\ Cardinality(Indices(SelectSeq(queries, IsMaxQuery), tbl))
             <= Occurrences(tbl[1])
       /\ Cardinality(Indices(Actions, tbl))
             <= Cardinality({i \in Indices(lookups, tbl) :
                                IsPositive(lookups[i])})
       /\ Cardinality(Indices(logged, tbl)) <= Occurrences(tbl[1])
       /\ build = "main_go" => Cardinality(Indices(logged, tbl)) <= 1
       /\ Occurrences(tbl[1]) <= 1 =>
             /\ Cardinality(Indices(SelectSeq(queries, IsMaxQuery), tbl)) <= 1
             /\ Cardinality(Indices(Actions, tbl)) <= 1

C9_Witness ==
    /\ pc = "done"
    /\ build = "part_000"
    /\ {"lookup", "action"} \subseteq diag
    /\ \E tbl \in Tables :
          /\ Occurrences(tbl[1]) = 2
          /\ Cardinality(Indices(SelectSeq(queries, IsMaxQuery), tbl)) = 2
          /\ Cardinality(Indices(Actions, tbl)) = 1

IsRowIDRow(row) == row.ID_TYPE = "_TIDB_ROWID"
HasRowIDRow(rows) == \E i \in 1..Len(rows) : IsRowIDRow(rows[i])

====
